---- MODULE Spec2Model ----
(***************************************************************************)
(* Model of noxfile.py: the nox sessions `rust` and `rust_coverage`, with  *)
(* the `tests` helper that rust_coverage calls.  A run of one session is a *)
(* sequential program; every external command (session.run) either exits  *)
(* zero or non-zero, and a non-zero exit raises nox's CommandFailed, which *)
(* unwinds the enclosing `with` blocks and fails the session.              *)
(***************************************************************************)
EXTENDS Integers, Sequences, FiniteSets, TLC

VARIABLES
    session,     \* name of the session being run: "rust" or "rust_coverage"
    pc,          \* the statement the session executes next
    env,         \* session.env entries set by the session (line 154)
    cwd,         \* the process working directory
    dirStack,    \* directories saved by the active `with session.chdir(..)`
    log,         \* external commands invoked so far, in order, with outcome
    fragments,   \* *.profraw files present below src/rust/
    paths,       \* local `paths`       (line 165)
    artifacts,   \* files the merge command has written below src/rust/
    json_blobs,  \* local `json_blobs`  (line 178), as its splitlines()
    filenames,   \* local `filenames`   (line 190)
    rust_so,     \* local `rust_so`     (line 202)
    handle,      \* file object `f` of line 206: "none", "open" or "closed"
    report,      \* ../../cov.lcov: "absent", "empty" (created/truncated), "written"
    opens,       \* number of times cov.lcov was opened for writing
    error,       \* exception that ended the session, "none" while there is none
    exitCode,    \* -1 while running, then 0 (session passed) or 1 (failed)
    procs,       \* live instrumented processes of the running test command
    exited,      \* process identifiers of the instrumented processes that ended
    written      \* the writes of raw profiles so far: directory, file, writer

vars == <<session, pc, env, cwd, dirStack, log, fragments, paths, artifacts,
          json_blobs, filenames, rust_so, handle, report, opens, error, exitCode,
          procs, exited, written>>

\* what the instrumented processes of a test command change
procVars == <<procs, exited, written>>

-----------------------------------------------------------------------------
(* Bounds of the model. *)

\* longest captured build-message output, in lines
MaxLines == 3
\* largest number of raw profile fragments the native test run leaves
MaxFragments == 2

-----------------------------------------------------------------------------
(* Fixed names. *)

RepoRoot == "/repo"
RustDir == "/repo/src/rust"
ProfdataFile == "rust-cov.profdata"
ObjectMarker == "-object"
SharedObject == "_rust_abi3.so"

SessionNames == {"rust", "rust_coverage"}

\* artifact paths that build messages carry
PathNames == {"bin1", "bin2"}

\* the values of a record's "filenames" list: zero, one or two entries
FilenameLists == {<<>>} \cup {<<p>> : p \in PathNames} \cup {<<"bin1", "bin2">>}

(***************************************************************************)
(* One line of the captured output.  kind is what the text is: "garbage"   *)
(* is text that is not JSON, "array" is JSON that is not an object,        *)
(* "object" is a JSON object.  For an object, profile tells whether the    *)
(* key "profile" is absent ("absent"), holds an object without the key     *)
(* "test" ("notest"), or what profile.test holds; hasFilenames tells       *)
(* whether the key "filenames" is present.                                 *)
(***************************************************************************)
Blob(kind, profile, hasFilenames, fl) ==
    [kind |-> kind, profile |-> profile, hasFilenames |-> hasFilenames, filenames |-> fl]

Lines ==
    {Blob("garbage", "absent", FALSE, <<>>),
     Blob("array", "absent", FALSE, <<>>),
     Blob("object", "absent", FALSE, <<>>),
     Blob("object", "notest", FALSE, <<>>)}
    \cup {Blob("object", t, FALSE, <<>>) : t \in {"false", "true"}}
    \cup {Blob("object", t, TRUE, fl) : t \in {"false", "true"}, fl \in FilenameLists}

Streams == UNION {[1..n -> Lines] : n \in 0..MaxLines}

FragmentSets == {1..n : n \in 0..MaxFragments}

-----------------------------------------------------------------------------
(* The parser of the build messages, lines 193-201. *)

(***************************************************************************)
(* json.loads(blob), line 194.  Text that is not JSON raises               *)
(* JSONDecodeError; otherwise the decoded value is a list or a dict.       *)
(***************************************************************************)
json_loads(blob) ==
    IF blob.kind = "garbage"
    THEN [exc |-> "JSONDecodeError", data |-> blob]
    ELSE [exc |-> "none",
          data |-> [type |-> IF blob.kind = "array" THEN "list" ELSE "dict",
                    profile |-> blob.profile,
                    hasFilenames |-> blob.hasFilenames,
                    filenames |-> blob.filenames]]

\* faulty variant: the branch is taken whenever profile.test is present
ProfileTestPresent(data) ==
    IF data.type = "list" THEN [exc |-> "TypeError", value |-> FALSE]
    ELSE IF data.profile \in {"absent", "notest"} THEN [exc |-> "KeyError", value |-> FALSE]
    ELSE [exc |-> "none", value |-> TRUE]

(***************************************************************************)
(* data["profile"]["test"], line 196.  Indexing a list with a string       *)
(* raises TypeError, a missing key raises KeyError.                        *)
(***************************************************************************)
ProfileTest(data) ==
    IF data.type = "list" THEN [exc |-> "TypeError", value |-> FALSE]
    ELSE IF data.profile \in {"absent", "notest"} THEN [exc |-> "KeyError", value |-> FALSE]
    ELSE [exc |-> "none", value |-> (data.profile = "true")]

\* faulty variant: the assertion of line 197 is dropped
TestBranchNoAssert(data, refs) ==
    IF ~data.hasFilenames THEN [exc |-> "KeyError", refs |-> refs]
    ELSE [exc |-> "none", refs |-> Append(refs, ObjectMarker) \o data.filenames]

\* faulty variant: the path is appended without its marker
TestBranchNoMarker(data, refs) ==
    IF ~data.hasFilenames THEN [exc |-> "KeyError", refs |-> refs]
    ELSE IF Len(data.filenames) # 1 THEN [exc |-> "AssertionError", refs |-> refs]
    ELSE [exc |-> "none", refs |-> refs \o data.filenames]

(***************************************************************************)
(* Lines 197-199, the body of `if data["profile"]["test"]:`.               *)
(* data["filenames"] raises KeyError when the key is missing; the assert   *)
(* raises AssertionError unless the list has exactly one entry; then the   *)
(* marker and the entries of the list are appended.                        *)
(***************************************************************************)
TestBranch(data, refs) ==
    IF ~data.hasFilenames THEN [exc |-> "KeyError", refs |-> refs]
    ELSE IF Len(data.filenames) # 1 THEN [exc |-> "AssertionError", refs |-> refs]
    ELSE [exc |-> "none", refs |-> Append(refs, ObjectMarker) \o data.filenames]

\* faulty variant: the handler of line 200 is missing, KeyError leaves the loop
TryBlockNoHandler(data, refs) ==
    LET t == ProfileTest(data)
    IN  IF t.exc # "none" THEN [exc |-> t.exc, refs |-> refs]
        ELSE IF t.value THEN TestBranch(data, refs)
        ELSE [exc |-> "none", refs |-> refs]

(***************************************************************************)
(* Lines 195-201, the try statement: KeyError is caught and ignored, any   *)
(* other exception leaves the statement.                                   *)
(***************************************************************************)
TryBlock(data, refs) ==
    LET t == ProfileTest(data)
        r == IF t.exc # "none" THEN [exc |-> t.exc, refs |-> refs]
             ELSE IF t.value THEN TestBranch(data, refs)
             ELSE [exc |-> "none", refs |-> refs]
    IN  IF r.exc = "KeyError" THEN [exc |-> "none", refs |-> r.refs] ELSE r

\* faulty variant: json.loads sits inside a handler that swallows its error
LoopBodySkipUndecodable(blob, refs) ==
    LET d == json_loads(blob)
    IN  IF d.exc # "none" THEN [exc |-> "none", refs |-> refs]
        ELSE TryBlock(d.data, refs)

(***************************************************************************)
(* Lines 194-201, one iteration of the loop.  json.loads is called outside *)
(* the try statement, so what it raises leaves the loop.                   *)
(***************************************************************************)
LoopBody(blob, refs) ==
    LET d == json_loads(blob)
    IN  IF d.exc # "none" THEN [exc |-> d.exc, refs |-> refs]
        ELSE TryBlock(d.data, refs)

(***************************************************************************)
(* Lines 193-201, the loop from line i on: it stops at the first line that *)
(* raises, with the list built up to there.                                *)
(***************************************************************************)
RECURSIVE ParseFrom(_, _, _)
ParseFrom(blobs, i, refs) ==
    IF i > Len(blobs) THEN [exc |-> "none", refs |-> refs]
    ELSE LET r == LoopBody(blobs[i], refs)
         IN  IF r.exc # "none" THEN r ELSE ParseFrom(blobs, i + 1, r.refs)

\* lines 190-201 on the captured output
ParseBlobs(blobs) ==
    ParseFrom(blobs, 1, <<>>)

-----------------------------------------------------------------------------
(* The state after construction: nox has created the session, nothing ran. *)

Init ==
    /\ session \in SessionNames
    /\ pc = "start"
    /\ env = {}
    /\ cwd = RepoRoot
    /\ dirStack = <<>>
    /\ log = <<>>
    /\ fragments = {}
    /\ paths = <<>>
    /\ artifacts = {}
    /\ json_blobs = <<>>
    /\ filenames = <<>>
    /\ rust_so = <<>>
    /\ handle = "none"
    /\ report = "absent"
    /\ opens = 0
    /\ error = "none"
    /\ exitCode = -1
    /\ procs = {}
    /\ exited = {}
    /\ written = {}

-----------------------------------------------------------------------------
(* Leaving `with` blocks and failing. *)

\* faulty variant: the saved directory is not restored
ChdirExitKeep(stack, dir) ==
    dir

(***************************************************************************)
(* __exit__ of `with session.chdir(..)`, lines 146 and 163: the directory  *)
(* saved on entry becomes the working directory again.  Outside such a     *)
(* block nothing changes.                                                  *)
(***************************************************************************)
ChdirExit(stack, dir) ==
    IF stack # <<>> THEN Head(stack) ELSE dir

\* faulty variant: the file is left open
OpenExitLeak(h) ==
    h

\* __exit__ of `with open(..) as f`, line 206: an open file is closed
OpenExit(h) ==
    IF h = "open" THEN "closed" ELSE h

(***************************************************************************)
(* An exception leaves the session function: the enclosing with blocks are *)
(* left innermost first, and nox records the session as failed.            *)
(***************************************************************************)
Raise(exc) ==
    /\ pc' = "aborted"
    /\ error' = exc
    /\ exitCode' = 1
    /\ handle' = OpenExit(handle)
    /\ cwd' = ChdirExit(dirStack, cwd)
    /\ dirStack' = <<>>

\* the session function returns: nox records the session as passed
Return ==
    /\ pc' = "done"
    /\ exitCode' = 0
    /\ cwd' = ChdirExit(dirStack, cwd)
    /\ dirStack' = <<>>
    /\ UNCHANGED error

\* faulty variant: the exit status of the command is ignored
AfterRunUnchecked(ok, next) ==
    /\ pc' = next
    /\ UNCHANGED <<error, exitCode, handle, cwd, dirStack>>

\* faulty variant: a command that fails is run once more before giving up
AfterRunRetry(ok, next) ==
    IF ok
    THEN /\ pc' = next
         /\ UNCHANGED <<error, exitCode, handle, cwd, dirStack>>
    ELSE IF log = <<>> \/ log[Len(log)].ok
    THEN UNCHANGED <<pc, error, exitCode, handle, cwd, dirStack>>
    ELSE Raise("CommandFailed")

(***************************************************************************)
(* What follows session.run: a zero exit continues with the next           *)
(* statement, a non-zero exit raises CommandFailed.                        *)
(***************************************************************************)
AfterRun(ok, next) ==
    IF ok
    THEN /\ pc' = next
         /\ UNCHANGED <<error, exitCode, handle, cwd, dirStack>>
    ELSE Raise("CommandFailed")

\* session.run(cmd, *args): the command is invoked and exits zero (ok) or not
Run(cmd, args, ok, next) ==
    /\ log' = Append(log, [cmd |-> cmd, args |-> args, ok |-> ok])
    /\ AfterRun(ok, next)

-----------------------------------------------------------------------------
(* tests(session), lines 29-58, as rust_coverage calls it. *)

\* lines 154-159: the instrumentation variables are put into session.env
EnvUpdate ==
    /\ session = "rust_coverage"
    /\ pc = "start"
    /\ env' = {"RUSTFLAGS", "LLVM_PROFILE_FILE"}
    /\ pc' = "install_pkg"
    /\ UNCHANGED <<session, cwd, dirStack, log, fragments, paths, artifacts, json_blobs,
                   filenames, rust_so, handle, report, opens, error, exitCode>>
    /\ UNCHANGED procVars

\* line 36: install(session, ".[test]")
InstallPackage ==
    /\ pc = "install_pkg"
    /\ \E ok \in BOOLEAN : Run("pip_install", <<".[test]">>, ok, "install_vectors")
    /\ UNCHANGED <<session, env, fragments, paths, artifacts, json_blobs, filenames,
                   rust_so, report, opens>>
    /\ UNCHANGED procVars

\* line 37: install(session, "-e", "./vectors")
InstallVectors ==
    /\ pc = "install_vectors"
    /\ \E ok \in BOOLEAN : Run("pip_install", <<"./vectors">>, ok, "pip_list")
    /\ UNCHANGED <<session, env, fragments, paths, artifacts, json_blobs, filenames,
                   rust_so, report, opens>>
    /\ UNCHANGED procVars

\* line 39: session.run("pip", "list")
PipList ==
    /\ pc = "pip_list"
    /\ \E ok \in BOOLEAN : Run("pip_list", <<>>, ok, "pytest")
    /\ UNCHANGED <<session, env, fragments, paths, artifacts, json_blobs, filenames,
                   rust_so, report, opens>>
    /\ UNCHANGED procVars

\* lines 41-58: session.run("pytest", ..); then tests() returns to line 163
Pytest ==
    /\ pc = "pytest"
    /\ \E ok \in BOOLEAN : Run("pytest", <<>>, ok, "chdir")
    /\ UNCHANGED <<session, env, fragments, paths, artifacts, json_blobs, filenames,
                   rust_so, report, opens>>
    /\ UNCHANGED procVars

-----------------------------------------------------------------------------
(* rust(session), lines 143-149. *)

\* line 144: install(session, ".")
RustInstall ==
    /\ session = "rust"
    /\ pc = "start"
    /\ \E ok \in BOOLEAN : Run("pip_install", <<".">>, ok, "chdir")
    /\ UNCHANGED <<session, env, fragments, paths, artifacts, json_blobs, filenames,
                   rust_so, report, opens>>
    /\ UNCHANGED procVars

\* lines 146 and 163: with session.chdir("src/rust/")
EnterChdir ==
    /\ pc = "chdir"
    /\ dirStack' = <<cwd>> \o dirStack
    /\ cwd' = RustDir
    /\ pc' = IF session = "rust" THEN "cargo_fmt" ELSE "cargo_test"
    /\ UNCHANGED <<session, env, log, fragments, paths, artifacts, json_blobs, filenames,
                   rust_so, handle, report, opens, error, exitCode>>
    /\ UNCHANGED procVars

\* line 147: cargo fmt --all -- --check
CargoFmt ==
    /\ pc = "cargo_fmt"
    /\ \E ok \in BOOLEAN : Run("cargo_fmt", <<>>, ok, "cargo_clippy")
    /\ UNCHANGED <<session, env, fragments, paths, artifacts, json_blobs, filenames,
                   rust_so, report, opens>>
    /\ UNCHANGED procVars

\* line 148: cargo clippy -- -D warnings
CargoClippy ==
    /\ pc = "cargo_clippy"
    /\ \E ok \in BOOLEAN : Run("cargo_clippy", <<>>, ok, "rust_test")
    /\ UNCHANGED <<session, env, fragments, paths, artifacts, json_blobs, filenames,
                   rust_so, report, opens>>
    /\ UNCHANGED procVars

\* line 149: cargo test --no-default-features, then the block and the session end
RustCargoTest ==
    /\ pc = "rust_test"
    /\ \E ok \in BOOLEAN :
          /\ log' = Append(log, [cmd |-> "cargo_test", args |-> <<>>, ok |-> ok])
          /\ IF ok THEN Return /\ UNCHANGED handle ELSE Raise("CommandFailed")
    /\ UNCHANGED <<session, env, fragments, paths, artifacts, json_blobs, filenames,
                   rust_so, report, opens>>
    /\ UNCHANGED procVars

-----------------------------------------------------------------------------
(* rust_coverage(session), lines 163-221. *)

(***************************************************************************)
(* Line 164: cargo test --no-default-features under the instrumentation    *)
(* variables.  The test processes leave their raw profile fragments below  *)
(* src/rust/, whatever the exit status.                                    *)
(***************************************************************************)
CargoTest ==
    /\ pc = "cargo_test"
    /\ fragments' \in FragmentSets
    /\ \E ok \in BOOLEAN : Run("cargo_test", <<>>, ok, "glob")
    /\ UNCHANGED <<session, env, paths, artifacts, json_blobs, filenames, rust_so,
                   report, opens>>
    /\ UNCHANGED procVars

\* the elements of a set of numbers in increasing order
RECURSIVE Sorted(_)
Sorted(S) ==
    IF S = {} THEN <<>>
    ELSE LET m == CHOOSE x \in S : \A y \in S : x <= y
         IN  <<m>> \o Sorted(S \ {m})

\* faulty variant: the merge stage is left out
GlobFragmentsSkipMerge ==
    /\ pc = "glob"
    /\ paths' = Sorted(fragments)
    /\ pc' = "messages"
    /\ UNCHANGED <<session, env, cwd, dirStack, log, fragments, artifacts, json_blobs,
                   filenames, rust_so, handle, report, opens, error, exitCode>>
    /\ UNCHANGED procVars

\* faulty variant: one of the fragments is not found
GlobFragmentsMissOne ==
    /\ pc = "glob"
    /\ paths' = Sorted(fragments \ {1})
    /\ pc' = "merge"
    /\ UNCHANGED <<session, env, cwd, dirStack, log, fragments, artifacts, json_blobs,
                   filenames, rust_so, handle, report, opens, error, exitCode>>
    /\ UNCHANGED procVars

\* line 165: paths = glob.glob("**/*.profraw", recursive=True)
GlobFragments ==
    /\ pc = "glob"
    /\ paths' = Sorted(fragments)
    /\ pc' = "merge"
    /\ UNCHANGED <<session, env, cwd, dirStack, log, fragments, artifacts, json_blobs,
                   filenames, rust_so, handle, report, opens, error, exitCode>>
    /\ UNCHANGED procVars

\* faulty variant: the merge command is run only when there is a fragment
MergeUnlessEmpty ==
    /\ pc = "merge"
    /\ IF paths = <<>>
       THEN /\ pc' = "messages"
            /\ UNCHANGED <<log, artifacts, error, exitCode, handle, cwd, dirStack>>
       ELSE \E ok \in BOOLEAN :
               /\ Run("profdata_merge", paths, ok, "messages")
               /\ artifacts' = IF ok THEN artifacts \cup {ProfdataFile} ELSE artifacts
    /\ UNCHANGED <<session, env, fragments, paths, json_blobs, filenames, rust_so,
                   report, opens>>
    /\ UNCHANGED procVars

(***************************************************************************)
(* Lines 166-176: cargo profdata -- merge -sparse *paths -o                *)
(* rust-cov.profdata.  The call is unconditional.  A merge that exits zero *)
(* has written its output file.                                            *)
(***************************************************************************)
Merge ==
    /\ pc = "merge"
    /\ \E ok \in BOOLEAN :
          /\ Run("profdata_merge", paths, ok, "messages")
          /\ artifacts' = IF ok THEN artifacts \cup {ProfdataFile} ELSE artifacts
    /\ UNCHANGED <<session, env, fragments, paths, json_blobs, filenames, rust_so,
                   report, opens>>
    /\ UNCHANGED procVars

(***************************************************************************)
(* Lines 178-189: cargo test .. --no-run -q --message-format=json with     *)
(* silent=True: the standard output of a command that exits zero is        *)
(* returned and bound to json_blobs.                                       *)
(***************************************************************************)
BuildMessages ==
    /\ pc = "messages"
    /\ \E ok \in BOOLEAN :
          /\ Run("cargo_test_norun", <<>>, ok, "parse")
          /\ IF ok THEN json_blobs' \in Streams ELSE UNCHANGED json_blobs
    /\ UNCHANGED <<session, env, fragments, paths, artifacts, filenames, rust_so,
                   report, opens>>
    /\ UNCHANGED procVars

\* faulty variant: what is exported is decided by the list of references
ExportGuardByFilenames(blobs, refs) ==
    refs # <<>>

\* faulty variant: the export is not guarded at all
ExportGuardNone(blobs, refs) ==
    TRUE

\* line 191: `if json_blobs:` guards lines 192-221; an empty string is false
ExportGuard(blobs, refs) ==
    blobs # <<>>

(***************************************************************************)
(* Lines 190-201: filenames = [] and, when json_blobs is not empty, the    *)
(* loop over its lines.  An exception of the loop fails the session.  When *)
(* the guard of line 191 is false the function returns.                    *)
(***************************************************************************)
Parse ==
    /\ pc = "parse"
    /\ LET r == ParseBlobs(json_blobs)
       IN  /\ filenames' = r.refs
           /\ IF r.exc # "none" THEN Raise(r.exc)
              ELSE IF ExportGuard(json_blobs, r.refs)
              THEN /\ pc' = "glob_so"
                   /\ UNCHANGED <<error, exitCode, handle, cwd, dirStack>>
              ELSE Return /\ UNCHANGED handle
    /\ UNCHANGED <<session, env, log, fragments, paths, artifacts, json_blobs, rust_so,
                   report, opens>>
    /\ UNCHANGED procVars

\* lines 202-205: rust_so = glob.glob(".../_rust_abi3.so"), found or not
GlobSharedObject ==
    /\ pc = "glob_so"
    /\ rust_so' \in {<<>>, <<SharedObject>>}
    /\ pc' = "open"
    /\ UNCHANGED <<session, env, cwd, dirStack, log, fragments, paths, artifacts,
                   json_blobs, filenames, handle, report, opens, error, exitCode>>
    /\ UNCHANGED procVars

\* faulty variant: opening does not touch the file
OpenReportNoCreate ==
    /\ pc = "open"
    /\ handle' = "open"
    /\ opens' = opens + 1
    /\ pc' = "export"
    /\ UNCHANGED <<session, env, cwd, dirStack, log, fragments, paths, artifacts,
                   json_blobs, filenames, rust_so, error, exitCode, report>>
    /\ UNCHANGED procVars

\* line 206: open("../../cov.lcov", "wb") creates or truncates the file
OpenReport ==
    /\ pc = "open"
    /\ handle' = "open"
    /\ report' = "empty"
    /\ opens' = opens + 1
    /\ pc' = "export"
    /\ UNCHANGED <<session, env, cwd, dirStack, log, fragments, paths, artifacts,
                   json_blobs, filenames, rust_so, error, exitCode>>
    /\ UNCHANGED procVars

\* lines 214-218: the arguments after the artifacts, as the command gets them
ExportOptions ==
    <<"-instr-profile=rust-cov.profdata",
      "--ignore-filename-regex='/.cargo/'",
      "--ignore-filename-regex='/rustc/'",
      "--ignore-filename-regex='/.rustup/toolchains/'",
      "--format=lcov">>

\* faulty variant: the references are passed before the shared object
ExportReferencesFirst ==
    /\ pc = "export"
    /\ \E ok \in BOOLEAN :
          /\ Run("cov_export", filenames \o rust_so \o ExportOptions, ok, "leave")
          /\ report' = IF ok THEN "written" ELSE report
    /\ UNCHANGED <<session, env, fragments, paths, artifacts, json_blobs, filenames,
                   rust_so, opens>>
    /\ UNCHANGED procVars

\* faulty variant: a first failure of the export is retried
ExportRetry ==
    /\ pc = "export"
    /\ \E ok \in BOOLEAN :
          LET args == rust_so \o filenames \o ExportOptions
          IN  IF ~ok /\ \A i \in DOMAIN log : log[i].cmd # "cov_export"
              THEN /\ log' = Append(log, [cmd |-> "cov_export", args |-> args, ok |-> ok])
                   /\ UNCHANGED <<pc, error, exitCode, handle, cwd, dirStack, report>>
              ELSE /\ Run("cov_export", args, ok, "leave")
                   /\ report' = IF ok THEN "written" ELSE report
    /\ UNCHANGED <<session, env, fragments, paths, artifacts, json_blobs, filenames,
                   rust_so, opens>>
    /\ UNCHANGED procVars

(***************************************************************************)
(* Lines 207-221: cargo cov -- export *rust_so *filenames .. with its      *)
(* standard output sent to f.  A zero exit has written the report.         *)
(***************************************************************************)
Export ==
    /\ pc = "export"
    /\ \E ok \in BOOLEAN :
          /\ Run("cov_export", rust_so \o filenames \o ExportOptions, ok, "leave")
          /\ report' = IF ok THEN "written" ELSE report
    /\ UNCHANGED <<session, env, fragments, paths, artifacts, json_blobs, filenames,
                   rust_so, opens>>
    /\ UNCHANGED procVars

\* line 221 is the last statement: both with blocks end and the function returns
LeaveBlocks ==
    /\ pc = "leave"
    /\ handle' = OpenExit(handle)
    /\ Return
    /\ UNCHANGED <<session, env, log, fragments, paths, artifacts, json_blobs,
                   filenames, rust_so, report, opens>>
    /\ UNCHANGED procVars

-----------------------------------------------------------------------------

Next ==
    \/ EnvUpdate
    \/ InstallPackage
    \/ InstallVectors
    \/ PipList
    \/ Pytest
    \/ RustInstall
    \/ EnterChdir
    \/ CargoFmt
    \/ CargoClippy
    \/ RustCargoTest
    \/ CargoTest
    \/ GlobFragments
    \/ Merge
    \/ BuildMessages
    \/ Parse
    \/ GlobSharedObject
    \/ OpenReport
    \/ Export
    \/ LeaveBlocks

Spec == Init /\ [][Next]_vars

(***************************************************************************)
(* The session under the assumption that every external command            *)
(* terminates: session.run blocks until its command has exited, and the    *)
(* statements between the commands are finite, so a session that can take  *)
(* a step takes one.                                                       *)
(***************************************************************************)
SpecFair == Spec /\ WF_vars(Next)

-----------------------------------------------------------------------------
(***************************************************************************)
(* The test commands of lines 49-58 and 164 at the grain of their          *)
(* processes.  pytest -n auto and cargo test run several instrumented      *)
(* processes at once; each inherits session.env, and the profiling runtime *)
(* writes the raw profile of a process when the process ends, to the path  *)
(* that LLVM_PROFILE_FILE gives with %p replaced by the process            *)
(* identifier, relative to the directory the command was started in.       *)
(* session.run returns when the command has exited, which is after its     *)
(* processes have.  The system gives a new process an identifier that no   *)
(* process of the run has had.  In Spec the actions Pytest and CargoTest   *)
(* stand for a whole such run.                                             *)
(***************************************************************************)

\* most instrumented processes over one run of the session
MaxProcs == 3

Pids == 1..MaxProcs

\* line 157: "rust-cov/cov-%p.profraw", cut at the placeholder
LLVM_PROFILE_FILE == <<"rust-cov/cov-", "%p", ".profraw">>

\* faulty variant: the path template has no placeholder, "rust-cov/cov.profraw"
ProfileNameFixed(template, pid) ==
    0

(***************************************************************************)
(* The file a process writes.  A fragment is identified by the number its  *)
(* name carries, as in `fragments`: the process identifier put in for %p,  *)
(* and 0 for a name without a number.                                      *)
(***************************************************************************)
ProfileName(template, pid) ==
    IF \E k \in DOMAIN template : template[k] = "%p" THEN pid ELSE 0

InitProcs ==
    /\ Init
    /\ session = "rust_coverage"

\* lines 49-58: session.run("pytest", "-n", "auto", ..) starts the command
StartPytest ==
    /\ pc = "pytest"
    /\ pc' = "pytest_running"
    /\ UNCHANGED <<session, env, cwd, dirStack, log, fragments, paths, artifacts,
                   json_blobs, filenames, rust_so, handle, report, opens, error, exitCode>>
    /\ UNCHANGED procVars

\* line 164: session.run("cargo", "test", ..) starts the command
StartCargoTest ==
    /\ pc = "cargo_test"
    /\ pc' = "cargo_test_running"
    /\ UNCHANGED <<session, env, cwd, dirStack, log, fragments, paths, artifacts,
                   json_blobs, filenames, rust_so, handle, report, opens, error, exitCode>>
    /\ UNCHANGED procVars

\* the running command starts one more instrumented process
Spawn ==
    /\ pc \in {"pytest_running", "cargo_test_running"}
    /\ "LLVM_PROFILE_FILE" \in env
    /\ \E pid \in Pids \ ({p.pid : p \in procs} \cup exited) :
          procs' = procs \cup {[pid |-> pid, dir |-> cwd]}
    /\ UNCHANGED <<session, pc, env, cwd, dirStack, log, fragments, paths, artifacts,
                   json_blobs, filenames, rust_so, handle, report, opens, error, exitCode,
                   exited, written>>

\* a process ends: its raw profile is written, creating or replacing the file
ExitProcess ==
    /\ \E p \in procs :
          LET name == ProfileName(LLVM_PROFILE_FILE, p.pid)
          IN  /\ procs' = procs \ {p}
              /\ exited' = exited \cup {p.pid}
              /\ written' = written \cup {[dir |-> p.dir, name |-> name, by |-> p.pid]}
              /\ fragments' = IF p.dir = RustDir THEN fragments \cup {name} ELSE fragments
    /\ UNCHANGED <<session, pc, env, cwd, dirStack, log, paths, artifacts, json_blobs,
                   filenames, rust_so, handle, report, opens, error, exitCode>>

\* lines 49-58: pytest has exited, session.run returns or raises
FinishPytest ==
    /\ pc = "pytest_running"
    /\ procs = {}
    /\ \E ok \in BOOLEAN : Run("pytest", <<>>, ok, "chdir")
    /\ UNCHANGED <<session, env, fragments, paths, artifacts, json_blobs, filenames,
                   rust_so, report, opens>>
    /\ UNCHANGED procVars

\* line 164: cargo test has exited, session.run returns or raises
FinishCargoTest ==
    /\ pc = "cargo_test_running"
    /\ procs = {}
    /\ \E ok \in BOOLEAN : Run("cargo_test", <<>>, ok, "glob")
    /\ UNCHANGED <<session, env, fragments, paths, artifacts, json_blobs, filenames,
                   rust_so, report, opens>>
    /\ UNCHANGED procVars

\* rust_coverage up to the merge, lines 154-176, the test commands by process
NextProcs ==
    \/ EnvUpdate
    \/ InstallPackage
    \/ InstallVectors
    \/ PipList
    \/ StartPytest
    \/ Spawn
    \/ ExitProcess
    \/ FinishPytest
    \/ EnterChdir
    \/ StartCargoTest
    \/ FinishCargoTest
    \/ GlobFragments
    \/ Merge

SpecProcs == InitProcs /\ [][NextProcs]_vars

-----------------------------------------------------------------------------
(* Vocabulary of the properties. *)

Coverage == session = "rust_coverage"

Terminal == pc \in {"done", "aborted"}

AllOk(l) == \A i \in DOMAIN l : l[i].ok

Calls(cmd) == {i \in DOMAIN log : log[i].cmd = cmd}

Succeeded(cmd) == \E i \in Calls(cmd) : log[i].ok

ParseErrors == {"JSONDecodeError", "TypeError", "AssertionError"}

\* the native test run has succeeded and the merge stage is behind
MergeStagePassed == Coverage /\ Succeeded("cargo_test") /\ pc \notin {"glob", "merge"}

\* the build messages were captured
Captured == Coverage /\ Succeeded("cargo_test_norun")

\* the build messages were captured and lines 190-201 have run
ParseRan == Captured /\ pc # "parse"

\* ... and ran to the end of the loop
ParseDone == ParseRan /\ error \notin ParseErrors

Undecodable(b) == b.kind = "garbage"

TestFlag(b) == b.kind = "object" /\ b.profile = "true"

\* a record with the test-profile flag and exactly one path
WellFormedTest(b) == TestFlag(b) /\ b.hasFilenames /\ Len(b.filenames) = 1

\* a record with the test-profile flag and zero, or two or more, paths
ShapeViolation(b) == TestFlag(b) /\ b.hasFilenames /\ Len(b.filenames) # 1

\* a record that is no test-profile record: flag false, or no flag at all
NonTestRecord(b) == b.kind = "object" /\ b.profile # "true"

\* a record the parser passes over or takes a reference from
Harmless(b) == b.kind = "object" /\ ~ShapeViolation(b)

(***************************************************************************)
(* The pipeline state machine read off the position in rust_coverage: the  *)
(* stage that holds the statement to execute next.                         *)
(***************************************************************************)
PipelineState ==
    CASE pc = "start" -> "Idle"
      [] pc \in {"install_pkg", "install_vectors", "pip_list", "pytest", "chdir",
                 "cargo_test"} -> "Testing"
      [] pc = "glob" -> "Collecting"
      [] pc = "merge" -> "Merging"
      [] pc \in {"messages", "parse"} -> "BinaryDiscovery"
      [] pc \in {"glob_so", "open", "export", "leave"} -> "Exporting"
      [] pc = "done" -> "Done"
      [] pc = "aborted" -> "Aborted"
      [] OTHER -> "None"

StateOrder ==
    <<"Idle", "Testing", "Collecting", "Merging", "BinaryDiscovery", "Exporting", "Done">>

Rank(st) == CHOOSE k \in DOMAIN StateOrder : StateOrder[k] = st

-----------------------------------------------------------------------------
(* C1 *)

\* C1, as claimed: with zero fragments the merge command is not invoked; with
\* one or more it is invoked exactly once and, exiting zero, leaves exactly
\* one consolidated artifact.
C1_MergeNoOpWhenEmpty ==
    MergeStagePassed =>
        IF paths = <<>>
        THEN Calls("profdata_merge") = {}
        ELSE /\ Cardinality(Calls("profdata_merge")) = 1
             /\ Succeeded("profdata_merge") => artifacts = {ProfdataFile}

\* C1, amended: for every number N >= 0 of fragments found, N = 0 included,
\* the merge command is invoked exactly once, after the native test run
\* succeeded, with exactly the N fragments; exiting zero it leaves exactly
\* one consolidated artifact, exiting non-zero it leaves none and the
\* pipeline is aborted.  Before that stage it is not invoked.
C1_MergeAlwaysInvokedOnce ==
    /\ MergeStagePassed =>
          /\ Cardinality(Calls("profdata_merge")) = 1
          /\ Len(paths) = Cardinality(fragments)
          /\ \A i \in Calls("profdata_merge") :
                /\ log[i].args = paths
                /\ log[i].ok => artifacts = {ProfdataFile}
                /\ ~log[i].ok => artifacts = {} /\ pc = "aborted"
    /\ ~MergeStagePassed => Calls("profdata_merge") = {}

\* zero fragments were found and the merge command ran all the same
C1_Witness ==
    /\ MergeStagePassed
    /\ paths = <<>>
    /\ Succeeded("profdata_merge")
    /\ artifacts = {ProfdataFile}

-----------------------------------------------------------------------------
(* C2 *)

\* C2, as claimed: a line that fails to decode is skipped; when no other
\* line of the stream raises, parsing is not what aborts the pipeline and
\* the reference list is the one of the stream without the undecodable lines.
C2_UndecodableLineSkipped ==
    (ParseRan /\ \A i \in DOMAIN json_blobs :
                     Undecodable(json_blobs[i]) \/ Harmless(json_blobs[i]))
    => /\ error \notin ParseErrors
       /\ filenames = ParseBlobs(SelectSeq(json_blobs, LAMBDA b : ~Undecodable(b))).refs

\* C2, amended: a line that fails to decode is not skipped.  Wherever it
\* sits in the stream, the pipeline ends Aborted with a non-zero exit and the
\* report is never opened nor the export command invoked; the exception is
\* JSONDecodeError, raised at the first such line, when no line before it
\* raises.
C2_UndecodableLineAborts ==
    (ParseRan /\ \E i \in DOMAIN json_blobs : Undecodable(json_blobs[i]))
    => /\ pc = "aborted"
       /\ exitCode = 1
       /\ error \in ParseErrors
       /\ opens = 0 /\ report = "absent" /\ Calls("cov_export") = {}
       /\ LET first == CHOOSE i \in DOMAIN json_blobs :
                          /\ Undecodable(json_blobs[i])
                          /\ \A j \in 1..(i - 1) : ~Undecodable(json_blobs[j])
          IN  (\A j \in 1..(first - 1) : Harmless(json_blobs[j]))
              => /\ error = "JSONDecodeError"
                 /\ Len(filenames) =
                       2 * Cardinality({j \in 1..(first - 1) : WellFormedTest(json_blobs[j])})

\* an undecodable line after a parsed test record aborted the pipeline
C2_Witness ==
    /\ ParseRan
    /\ Len(json_blobs) >= 2
    /\ WellFormedTest(json_blobs[1])
    /\ Undecodable(json_blobs[Len(json_blobs)])
    /\ error = "JSONDecodeError"
    /\ pc = "aborted"
    /\ filenames # <<>>

-----------------------------------------------------------------------------
(* C3 *)

\* C3, as claimed: whenever parsing yields zero references, the report file
\* is not opened or created and the export command is not invoked.
C3_EmptyReferencesSkipExport ==
    (ParseDone /\ filenames = <<>>)
    => opens = 0 /\ report = "absent" /\ Calls("cov_export") = {}

\* C3, amended: an empty captured output causes the export step to be
\* skipped entirely: the report file is not opened or created and the export
\* command is not invoked.  A non-empty output that parses to the end does
\* not skip it, zero references or not: a run that reaches Done has opened
\* the report once and invoked the export command once.
C3_EmptyOutputSkipsExport ==
    /\ (ParseDone /\ json_blobs = <<>>)
       => pc = "done" /\ opens = 0 /\ report = "absent" /\ Calls("cov_export") = {}
    /\ (ParseDone /\ json_blobs # <<>> /\ pc = "done")
       => opens = 1 /\ report = "written" /\ Cardinality(Calls("cov_export")) = 1

\* the captured output was empty and the run ended without an export
C3_Witness ==
    /\ ParseDone
    /\ json_blobs = <<>>
    /\ pc = "done"
    /\ opens = 0
    /\ Calls("cov_export") = {}

-----------------------------------------------------------------------------
(* C4 *)

\* C4: a captured stream that holds, anywhere, a record with the test-profile
\* flag and zero or two-or-more paths never leads to the report being opened
\* or the export command invoked; once parsed, the pipeline is Aborted with a
\* non-zero exit, by the assertion when no line before the record raises.
C4_ShapeViolationAborts ==
    (Captured /\ \E i \in DOMAIN json_blobs : ShapeViolation(json_blobs[i]))
    => /\ opens = 0 /\ report = "absent" /\ Calls("cov_export") = {}
       /\ pc # "parse" =>
             /\ pc = "aborted"
             /\ exitCode = 1
             /\ error \in ParseErrors
             /\ LET first == CHOOSE i \in DOMAIN json_blobs :
                                /\ ShapeViolation(json_blobs[i])
                                /\ \A j \in 1..(i - 1) : ~ShapeViolation(json_blobs[j])
                IN  (\A j \in 1..(first - 1) : Harmless(json_blobs[j]))
                    => error = "AssertionError"

\* a test-profile record with zero paths, after a parsed one, aborted the run
C4_Witness ==
    /\ ParseRan
    /\ Len(json_blobs) >= 2
    /\ WellFormedTest(json_blobs[1])
    /\ ShapeViolation(json_blobs[Len(json_blobs)])
    /\ json_blobs[Len(json_blobs)].filenames = <<>>
    /\ error = "AssertionError"
    /\ pc = "aborted"
    /\ exitCode = 1
    /\ report = "absent"

-----------------------------------------------------------------------------
(* C5 *)

\* the positions of the well-formed test-profile records, in stream order
TestPositions(blobs) == Sorted({i \in DOMAIN blobs : WellFormedTest(blobs[i])})

\* C5: for a stream of M well-formed test-profile records interleaved with
\* non-test records, parsing completes and the reference list is marker,
\* path1, marker, path2, ..: 2M entries, the k-th path being the path of the
\* k-th test-profile record and directly preceded by "-object".
C5_ReferencesInEncounterOrder ==
    (ParseRan /\ \A i \in DOMAIN json_blobs :
                     WellFormedTest(json_blobs[i]) \/ NonTestRecord(json_blobs[i]))
    => LET pos == TestPositions(json_blobs)
       IN  /\ error \notin ParseErrors
           /\ Len(filenames) = 2 * Len(pos)
           /\ \A k \in 1..Len(pos) :
                 /\ filenames[2 * k - 1] = ObjectMarker
                 /\ filenames[2 * k] = json_blobs[pos[k]].filenames[1]

\* two test-profile records around a non-test record, parsed in order
C5_Witness ==
    /\ ParseRan
    /\ Len(json_blobs) = 3
    /\ WellFormedTest(json_blobs[1]) /\ json_blobs[1].filenames = <<"bin2">>
    /\ NonTestRecord(json_blobs[2])
    /\ WellFormedTest(json_blobs[3]) /\ json_blobs[3].filenames = <<"bin1">>
    /\ filenames = <<ObjectMarker, "bin2", ObjectMarker, "bin1">>

-----------------------------------------------------------------------------
(* C6 *)

\* C6: every change of the pipeline state goes to Aborted or forward to the
\* next state of Idle, Testing, Collecting, Merging, BinaryDiscovery,
\* Exporting, Done (from BinaryDiscovery straight to Done when the export is
\* skipped), never backwards and never to a state seen before; a state
\* other than Aborted is entered only when every command invoked so far
\* exited zero, and a command that exits non-zero moves directly to Aborted.
C6_StrictOrder ==
    [][Coverage =>
        /\ PipelineState' # PipelineState =>
              \/ PipelineState' = "Aborted" /\ PipelineState \notin {"Done", "Aborted"}
              \/ /\ PipelineState \notin {"Done", "Aborted"}
                 /\ PipelineState' # "Aborted"
                 /\ \/ Rank(PipelineState') = Rank(PipelineState) + 1
                    \/ /\ PipelineState = "BinaryDiscovery"
                       /\ PipelineState' = "Done"
                       /\ json_blobs' = <<>>
                 /\ AllOk(log')
        /\ (log' # log /\ ~log'[Len(log')].ok) => PipelineState' = "Aborted"
        /\ PipelineState' \in {"Idle", "Testing", "Collecting", "Merging",
                               "BinaryDiscovery", "Exporting", "Done", "Aborted"}
      ]_vars

\* the run went through every stage, the export included, and is Done
C6_Witness ==
    /\ Coverage
    /\ PipelineState = "Done"
    /\ Len(log) = 8
    /\ AllOk(log)
    /\ log[5].cmd = "cargo_test"
    /\ log[6].cmd = "profdata_merge"
    /\ log[7].cmd = "cargo_test_norun"
    /\ log[8].cmd = "cov_export"

-----------------------------------------------------------------------------
(* C7 *)

\* once a command has exited non-zero no further command is invoked
FailFast == \A i \in DOMAIN log : ~log[i].ok => i = Len(log)

\* C7, as claimed: fail-fast, and at the end the exit code is zero exactly
\* when every invoked command succeeded and no invariant violation occurred
\* (final state Done); otherwise it is non-zero (final state Aborted).
C7_ExitZeroIffCommandsAndInvariant ==
    /\ FailFast
    /\ Terminal =>
          /\ exitCode = 0 <=> (AllOk(log) /\ error # "AssertionError")
          /\ exitCode = 0 <=> pc = "done"
          /\ exitCode # 0 <=> pc = "aborted"

\* C7, amended: fail-fast, and at the end the exit code is zero exactly when
\* every invoked command succeeded and the session code raised no exception
\* of its own (final state Done); otherwise it is non-zero (final state
\* Aborted).  The exceptions of the session code are those of parsing the
\* build messages: an undecodable line, a line that is no JSON object, and
\* the path-count assertion.
C7_ExitZeroIffNoFailure ==
    /\ FailFast
    /\ error = "CommandFailed" <=> ~AllOk(log)
    /\ error \in {"none", "CommandFailed"} \cup ParseErrors
    /\ Terminal =>
          /\ exitCode = 0 <=> (AllOk(log) /\ error = "none")
          /\ exitCode = 0 <=> pc = "done"
          /\ exitCode = 1 <=> pc = "aborted"
    /\ ~Terminal => exitCode = -1 /\ error = "none" /\ AllOk(log)

\* a command exited non-zero after others had succeeded: the run is Aborted
C7_Witness ==
    /\ Coverage
    /\ pc = "aborted"
    /\ exitCode = 1
    /\ Len(log) = 6
    /\ log[6].cmd = "profdata_merge"
    /\ ~log[6].ok
    /\ \A i \in 1..5 : log[i].ok

-----------------------------------------------------------------------------
(* C8 *)

\* C8: in every terminal state of the rust and rust_coverage sessions the
\* working directory is the one in effect before `with session.chdir(..)`
\* was entered, and no saved directory is left; inside the block it is
\* src/rust/.
C8_WorkingDirectoryRestored ==
    /\ Terminal => cwd = RepoRoot /\ dirStack = <<>>
    /\ ~Terminal => (cwd = RustDir <=> dirStack = <<RepoRoot>>)
    /\ ~Terminal => (cwd = RepoRoot <=> dirStack = <<>>)

\* the assertion failed inside the block and the directory is restored
C8_Witness ==
    /\ Coverage
    /\ pc = "aborted"
    /\ error = "AssertionError"
    /\ Succeeded("cargo_test")
    /\ cwd = RepoRoot

-----------------------------------------------------------------------------
(* C9 *)

\* C9: in every terminal state the handle of the report is not open: closed
\* when the file was opened, whether the export command exited zero or not,
\* and never created otherwise.  It is open only around the export command.
C9_ReportHandleClosed ==
    /\ Terminal => handle = (IF opens > 0 THEN "closed" ELSE "none")
    /\ handle = "open" => pc \in {"export", "leave"}

\* the export command exited non-zero and the handle is closed
C9_Witness ==
    /\ pc = "aborted"
    /\ Calls("cov_export") # {}
    /\ ~Succeeded("cov_export")
    /\ opens = 1
    /\ handle = "closed"

-----------------------------------------------------------------------------
(* C10 *)

\* C10, as claimed: zero fragments and zero references, with the test and
\* build-message commands succeeding: the merge is a no-op, the export is
\* skipped, no report file is created and the result is not Aborted.
C10_ScenarioB ==
    (ParseDone /\ Succeeded("pytest") /\ paths = <<>> /\ filenames = <<>>)
    => /\ Calls("profdata_merge") = {}
       /\ opens = 0 /\ report = "absent" /\ Calls("cov_export") = {}
       /\ pc # "aborted"
       /\ Terminal => pc = "done"

\* C10, amended: zero fragments and an empty captured build-message output,
\* with the test, merge and build-message commands succeeding: the merge
\* command is invoked once, with no fragment argument, the export is
\* skipped, no report file is created and the result is Done with exit
\* code zero.
C10_ScenarioBEmptyOutput ==
    (ParseRan /\ Succeeded("pytest") /\ paths = <<>> /\ json_blobs = <<>>)
    => /\ Cardinality(Calls("profdata_merge")) = 1
       /\ \A i \in Calls("profdata_merge") : log[i].args = <<>> /\ log[i].ok
       /\ filenames = <<>>
       /\ opens = 0 /\ report = "absent" /\ Calls("cov_export") = {}
       /\ handle = "none"
       /\ pc = "done" /\ exitCode = 0 /\ error = "none"

\* scenario B ended Done: no fragment, empty output, nothing exported
C10_Witness ==
    /\ ParseRan
    /\ fragments = {}
    /\ paths = <<>>
    /\ json_blobs = <<>>
    /\ pc = "done"
    /\ exitCode = 0
    /\ report = "absent"

-----------------------------------------------------------------------------
(* C11 *)

\* a record that lacks the test-profile indicator or the path list
LacksField(b) ==
    b.kind = "object" /\ (b.profile \in {"absent", "notest"} \/ ~b.hasFilenames)

-----------------------------------------------------------------------------
(* C12 *)

\* the export stage is behind: the command was invoked
ExportRan == ParseDone /\ pc \notin {"glob_so", "open", "export"} /\ json_blobs # <<>>

\* C12: with a non-empty reference list and every earlier stage succeeded,
\* the export command is invoked exactly once, its arguments being the
\* located shared-object paths, then the whole reference list as parsed,
\* then the consolidated profile written by the merge stage and the three
\* exclusion patterns; when it exits zero the run ends Done with the report
\* written at the fixed path.
C12_ExportArguments ==
    (ExportRan /\ filenames # <<>>)
    => /\ Cardinality(Calls("cov_export")) = 1
       /\ filenames = ParseBlobs(json_blobs).refs
       /\ ProfdataFile \in artifacts
       /\ \A i \in Calls("cov_export") :
             /\ i = Len(log)
             /\ SubSeq(log[i].args, 1, Len(rust_so)) = rust_so
             /\ SubSeq(log[i].args, Len(rust_so) + 1, Len(rust_so) + Len(filenames))
                   = filenames
             /\ Len(log[i].args) = Len(rust_so) + Len(filenames) + 5
             /\ {"-instr-profile=rust-cov.profdata",
                 "--ignore-filename-regex='/.cargo/'",
                 "--ignore-filename-regex='/rustc/'",
                 "--ignore-filename-regex='/.rustup/toolchains/'"}
                   \subseteq {log[i].args[k] : k \in DOMAIN log[i].args}
             /\ log[i].ok => /\ pc \in {"leave", "done"}
                             /\ report = "written"
                             /\ exitCode \in {-1, 0}
             /\ ~log[i].ok => pc = "aborted"

\* two fragments merged, one reference parsed, the report exported: Done
C12_Witness ==
    /\ ExportRan
    /\ fragments = {1, 2}
    /\ filenames = <<ObjectMarker, "bin1">>
    /\ rust_so = <<SharedObject>>
    /\ log[Len(log)].cmd = "cov_export"
    /\ log[Len(log)].args = <<SharedObject, ObjectMarker, "bin1">> \o ExportOptions
    /\ pc = "done"
    /\ report = "written"

-----------------------------------------------------------------------------
(* C13 *)

\* the entries of a sequence
Range(q) == {q[k] : k \in DOMAIN q}

\* C13: the fragments are discovered once, at line 165, after the native
\* test command exited zero and before the merge; what the merge command
\* gets is exactly the set of fragments on disk at that time, each once;
\* once the merge command has been invoked the discovery is not run again
\* and the list is not touched.
C13_MergeGetsDiscoveredFragments ==
    [][Coverage =>
        /\ paths' # paths => pc = "glob"
        /\ (pc' = "glob" /\ pc # "glob") => (pc = "cargo_test" /\ Calls("cargo_test") = {})
        /\ (pc = "glob" /\ pc' # "glob") =>
              /\ Succeeded("cargo_test")
              /\ Calls("profdata_merge") = {}
              /\ Range(paths') = fragments
              /\ Len(paths') = Cardinality(fragments)
              /\ pc' = "merge"
        /\ (log' # log /\ log'[Len(log')].cmd = "profdata_merge") =>
              /\ pc = "merge"
              /\ Range(log'[Len(log')].args) = fragments
              /\ Len(log'[Len(log')].args) = Cardinality(fragments)
        /\ Calls("profdata_merge") # {} =>
              /\ paths' = paths
              /\ fragments' = fragments
              /\ pc' \notin {"glob", "merge"}
      ]_vars

\* both fragments on disk were passed to the merge command, and the run went on
C13_Witness ==
    /\ Coverage
    /\ fragments = {1, 2}
    /\ paths = <<1, 2>>
    /\ \E i \in Calls("profdata_merge") : log[i].args = <<1, 2>> /\ log[i].ok
    /\ pc = "done"

-----------------------------------------------------------------------------
(* C14 *)

\* the file an instrumented process writes when it ends
Target(p) == [dir |-> p.dir, name |-> ProfileName(LLVM_PROFILE_FILE, p.pid)]

-----------------------------------------------------------------------------
(* C15 *)

\* a well-formed record whose test-profile flag is false
FlagFalse(b) == b.kind = "object" /\ b.profile = "false" /\ b.hasFilenames

\* C15: a well-formed record whose test-profile flag is false, with zero,
\* one or several entries in its path list, adds nothing to the reference
\* list and raises nothing: the list and the outcome of parsing are those
\* of the same stream without such records, no path of the list comes from
\* anywhere but a flag-true record, and a stream made of such records only
\* yields the empty list without the shape violation.
C15_FlagFalseContributesNothing ==
    ParseRan =>
        LET rest == SelectSeq(json_blobs, LAMBDA b : ~FlagFalse(b))
            r == ParseBlobs(rest)
        IN  /\ filenames = r.refs
            /\ r.exc = "none" => error \in {"none", "CommandFailed"}
            /\ r.exc # "none" => error = r.exc
            /\ \A k \in DOMAIN filenames :
                  filenames[k] # ObjectMarker =>
                      \E i \in DOMAIN json_blobs :
                          /\ WellFormedTest(json_blobs[i])
                          /\ json_blobs[i].filenames[1] = filenames[k]
            /\ (\A i \in DOMAIN json_blobs : FlagFalse(json_blobs[i])) =>
                  filenames = <<>> /\ error # "AssertionError"

\* flag-false records with zero, one and two paths were parsed, nothing was
\* added and nothing was raised
C15_Witness ==
    /\ ParseRan
    /\ Len(json_blobs) = 3
    /\ \A i \in 1..3 : FlagFalse(json_blobs[i])
    /\ {Len(json_blobs[i].filenames) : i \in 1..3} = {0, 1, 2}
    /\ filenames = <<>>
    /\ error = "none"
    /\ pc # "aborted"

-----------------------------------------------------------------------------
(* C16 *)

\* C16: in one invocation the report file is opened for writing at most
\* once and the export command is invoked at most once, the export only
\* after the file was opened; a run that has reached Done with a non-empty
\* reference list has done both exactly once and has written the report.
C16_ReportWrittenOnce ==
    /\ opens <= 1
    /\ Cardinality(Calls("cov_export")) <= 1
    /\ Calls("cov_export") # {} => opens = 1
    /\ report # "absent" <=> opens = 1
    /\ report = "written" <=> Succeeded("cov_export")
    /\ (Coverage /\ pc = "done" /\ filenames # <<>>) =>
          /\ opens = 1
          /\ Cardinality(Calls("cov_export")) = 1
          /\ report = "written"

\* a run that reached Done with one reference, one open and one export
C16_Witness ==
    /\ Coverage
    /\ pc = "done"
    /\ Len(filenames) = 2
    /\ opens = 1
    /\ Cardinality(Calls("cov_export")) = 1
    /\ report = "written"

-----------------------------------------------------------------------------
(* C17 *)

\* no command line is run twice: apart from the two installs, which differ in
\* their argument, every command name is logged once
NoRetry ==
    /\ \A i \in DOMAIN log : \A j \in DOMAIN log :
          (i # j) => <<log[i].cmd, log[i].args>> # <<log[j].cmd, log[j].args>>
    /\ \A c \in {log[i].cmd : i \in DOMAIN log} \ {"pip_install"} :
          Cardinality(Calls(c)) = 1
    /\ Cardinality(Calls("pip_install")) <= 2

\* C17: when every external command terminates, every invocation reaches
\* Done or Aborted; no command of the session is invoked twice (the two
\* installs differ in what they install, the two cargo test runs are the
\* test run and the build-message run); and Done and Aborted are terminal:
\* no step is taken from them, so nothing is run or written afterwards.
C17_TerminatesWithoutRetry ==
    /\ <>Terminal
    /\ []NoRetry
    /\ [][~Terminal]_vars

\* a run that reached Done after each of its commands ran once
C17_Witness ==
    /\ Coverage
    /\ pc = "done"
    /\ Len(log) = 8
    /\ AllOk(log)
    /\ {log[i].cmd : i \in DOMAIN log} =
          {"pip_install", "pip_list", "pytest", "cargo_test", "profdata_merge",
           "cargo_test_norun", "cov_export"}

-----------------------------------------------------------------------------
(* C18 *)

\* the export command was invoked and exited non-zero
ExportFailed == \E i \in Calls("cov_export") : ~log[i].ok

\* C18 as stated: a run that ends in Aborted, the export's own failure
\* included, has not created or truncated the report file.
C18_AbortLeavesNoReport ==
    pc = "aborted" => report = "absent"

\* C18 amended: a run that ends in Aborted has left no report file exactly
\* when it aborted before the open of line 206; the only abort after it is
\* the failure of the export command, and it leaves the file created or
\* truncated, closed, and without a completed report.
C18_AbortLeavesReportOnlyAfterOpen ==
    pc = "aborted" =>
        /\ report = "absent" <=> opens = 0
        /\ report # "absent" <=> ExportFailed
        /\ ExportFailed => report = "empty" /\ handle = "closed" /\ error = "CommandFailed"
        /\ report # "written"

\* the export command failed: the run is aborted and the file is there
C18_Witness ==
    /\ pc = "aborted"
    /\ ExportFailed
    /\ error = "CommandFailed"
    /\ exitCode = 1
    /\ report = "empty"
    /\ handle = "closed"

====
